---- MODULE Spec2Model ----
(***************************************************************************)
(* A model of the plugin server of src/src/main.rs: one PLUGINS table,     *)
(* the create / delete / list handlers, the broadcast channel created in   *)
(* main and the SSE connections that subscribe to it.                      *)
(*                                                                         *)
(* A handler is modelled at its suspension points.  create_plugin and      *)
(* delete_plugin await one SQL statement (the database executes it         *)
(* atomically) and then, once resumed, run tx.send and build the response  *)
(* without awaiting again; other handlers and streams may run in between.  *)
(***************************************************************************)
EXTENDS Integers, Sequences, FiniteSets, TLC

\* ------------------------------------------------------------------ bounds

MaxRequests == 3       \* requests started in a behaviour of Spec
MaxRequestsLag == 18   \* requests started in a behaviour of SpecLag
MaxId == 2             \* largest id a delete request names
MaxCreatesLag == 2     \* creates in a behaviour of SpecLag
MaxRequestsAlive == 2  \* requests started in a behaviour of SpecAlive
MaxKeepAlives == 2     \* keep-alive frames one connection is sent in SpecAlive

\* --------------------------------------------------------------- constants

\* channel::<PluginUpdate>(10)
ChannelCapacity == 10

\* KeepAlive::new().interval(Duration::from_secs(600)), in seconds; the model's
\* clock advances by half an interval at a time.
KeepAliveInterval == 600
Tick == KeepAliveInterval \div 2

\* Two handler slots, so that two requests can be in flight together, and two
\* connection slots, so that two SSE connections can be open together.
Tasks == {1, 2}
Conns == {1, 2}
Descriptions == {"logger"}
WasmUrls == {"https://x/logger.wasm"}
\* Path(id): i32
DeleteIds == 1..MaxId

VARIABLES
    plugins,     \* the PLUGINS table: the rows in storage order
    id_seq,      \* the value the table's id column takes at the next insert
    plugin_tx,   \* the broadcast channel: [buffer, pos, rx_cnt]
    task,        \* task[t]: a request handler's position and locals
    conn,        \* conn[c]: an SSE connection's receiver and the frames it emitted
    stderr,      \* the diagnostics written by eprintln!
    log,         \* history: the events the channel accepted, in order
    sends,       \* history: the number of tx.send calls
    mutations,   \* history: the number of store mutations that succeeded
    requests,    \* history: the number of requests started
    last,        \* history: the request that completed last, with its response
    created,     \* history: per create that responded, its id with the fields asked for
    removed      \* history: the ids whose row a DELETE removed

vars == <<plugins, id_seq, plugin_tx, task, conn, stderr, log, sends, mutations,
          requests, last, created, removed>>

\* ------------------------------------------------------------------- data

\* struct Plugin
Plugin(id, description, wasm_url) ==
    [id |-> id, description |-> description, wasm_url |-> wasm_url]

\* struct PluginUpdate
PluginUpdate(mutation_kind, id) == [mutation_kind |-> mutation_kind, id |-> id]

NoUpdate == PluginUpdate("None", 0)

\* A rounding that goes down instead of up.
RECURSIVE previous_power_of_two(_)
previous_power_of_two(n) == IF n <= 1 THEN 1 ELSE 2 * previous_power_of_two(n \div 2)

\* usize::next_power_of_two
RECURSIVE next_power_of_two(_)
next_power_of_two(n) == IF n <= 1 THEN 1 ELSE 2 * next_power_of_two((n + 1) \div 2)

\* The broadcast channel rounds the requested capacity up to a power of two:
\* the ring holds BufferLen slots.
BufferLen == next_power_of_two(ChannelCapacity)

Ids(rows) == {rows[i].id : i \in 1..Len(rows)}

RowsWithId(rows, id) == SelectSeq(rows, LAMBDA r : r.id = id)

\* -------------------------------------------------------------- responses

EmptyBody == [template |-> "", plugins |-> <<>>]

\* struct PluginNewTemplate { plugin }, rendered with status 200
PluginNewTemplate(plugin) ==
    [status |-> 200, body |-> [template |-> "plugin.html", plugins |-> <<plugin>>]]

\* struct PluginRecords { plugins }, rendered with status 200
PluginRecords(rows) ==
    [status |-> 200, body |-> [template |-> "plugins.html", plugins |-> rows]]

\* StatusCode::OK
StatusOK == [status |-> 200, body |-> EmptyBody]

\* .unwrap() on a store error: the handler panics and the request ends
\* with an internal failure and no body
InternalFailure == [status |-> 500, body |-> EmptyBody]

NoResponse == [status |-> 0, body |-> EmptyBody]

\* ---------------------------------------------------- the broadcast channel

\* channel(capacity): an empty ring; slot i starts with a position one lap
\* behind, and the receiver returned beside the sender is counted.
channel(capacity) ==
    [buffer |-> [i \in 0..(next_power_of_two(capacity) - 1) |->
                    [pos |-> i - next_power_of_two(capacity), val |-> NoUpdate]],
     pos |-> 0,
     rx_cnt |-> 1]

\* A receiver that stays counted after it is dropped.
keep_receiver(ch) == ch

\* A receiver is dropped.
drop_receiver(ch) == [ch EXCEPT !.rx_cnt = @ - 1]

\* tx.send(value).is_err(): there is no receiver
send_is_err(ch) == ch.rx_cnt = 0

\* tx.send(value) never waits: with no receiver the value is handed back,
\* otherwise it overwrites the slot of position pos, whoever has not read it.
send(ch, value) ==
    IF ch.rx_cnt = 0
    THEN ch
    ELSE [ch EXCEPT !.buffer[ch.pos % BufferLen] = [pos |-> ch.pos, val |-> value],
                    !.pos = @ + 1]

\* A subscribe that hands the new receiver what the ring still holds.
subscribe_from_start(ch) ==
    [ch |-> [ch EXCEPT !.rx_cnt = @ + 1], next |-> 0]

\* tx.subscribe(): a receiver that starts at the channel's current position

subscribe(ch) ==
    [ch |-> [ch EXCEPT !.rx_cnt = @ + 1], next |-> ch.pos]

\* A receiver that hands out the newest message instead of its next one.
recv_latest(ch, next) ==
    LET slot == ch.buffer[(ch.pos - 1) % BufferLen] IN
    IF next < ch.pos
    THEN [kind |-> "Ok", next |-> next + 1, pos |-> slot.pos, val |-> slot.val]
    ELSE [kind |-> "Empty", next |-> next, pos |-> next, val |-> NoUpdate]

\* One poll of the receiver at position next: the slot's value, Empty when
\* nothing was sent since, or Lagged when the slot was overwritten.

recv(ch, next) ==
    LET slot == ch.buffer[next % BufferLen]
        oldest == ch.pos - BufferLen
    IN
    IF slot.pos = next
    THEN [kind |-> "Ok", next |-> next + 1, pos |-> slot.pos, val |-> slot.val]
    ELSE IF slot.pos + BufferLen = next
    THEN [kind |-> "Empty", next |-> next, pos |-> next, val |-> NoUpdate]
    ELSE IF oldest - next = 0
    THEN [kind |-> "Ok", next |-> next + 1, pos |-> slot.pos, val |-> slot.val]
    ELSE [kind |-> "Lagged", next |-> oldest, pos |-> next, val |-> NoUpdate]

\* ------------------------------------------------------------- SSE frames

\* A serialisation that leaves the id out.
json_without_id(msg) ==
    <<"{\"mutation_kind\":\"", msg.mutation_kind, "\"}">>

\* json!(msg), printed: the fields of PluginUpdate in key order
json(msg) ==
    <<"{\"id\":", msg.id, ",\"mutation_kind\":\"", msg.mutation_kind, "\"}">>

\* Event::default().data(format!("<div>{}</div>", json!(msg)))
DataFrame(msg) == [data |-> <<"<div>">> \o json(msg) \o <<"</div>">>]

\* ------------------------------------------------------------- the state

\* struct PluginNew
PluginNew(description, wasm_url) == [description |-> description, wasm_url |-> wasm_url]

\* A handler's locals: the form (create), the path id (delete), the outcome
\* of the awaited statement, the row the INSERT returned, the rows the
\* statement affected, the outcome of tx.send and the response.
IdleTask ==
    [op |-> "none", pc |-> "idle", id |-> 0, form |-> <<>>, stmt |-> "none",
     plugin |-> <<>>, rows_affected |-> 0, sent |-> "none", resp |-> NoResponse]

NoConn ==
    [state |-> "none", next |-> 0, frames |-> <<>>, got |-> <<>>, since |-> 0, died |-> 0,
     idle |-> 0, comments |-> <<>>]

\* The state when the server starts serving: main has run the migrations,
\* created the channel and returned, which dropped _plugin_rx.
Init ==
    /\ plugins = <<>>
    /\ id_seq = 1
    /\ plugin_tx = drop_receiver(channel(ChannelCapacity))
    /\ task = [t \in Tasks |-> IdleTask]
    /\ conn = [c \in Conns |-> NoConn]
    /\ stderr = {}
    /\ log = <<>>
    /\ sends = 0
    /\ mutations = 0
    /\ requests = 0
    /\ last = IdleTask
    /\ created = {}
    /\ removed = {}

\* The runtime gives a new request the first handler slot that runs nothing
\* (which slot it is carries no meaning).
Free(t) ==
    /\ task[t].pc = "idle"
    /\ \A o \in Tasks : o < t => task[o].pc # "idle"

\* Likewise a new connection takes the first unused connection slot.
Unused(c) ==
    /\ conn[c].state = "none"
    /\ \A o \in Conns : o < c => conn[o].state # "none"

\* A handler returns: its slot is free again and its response is on record.
Completed(t, done) ==
    /\ task' = [task EXCEPT ![t] = IdleTask]
    /\ last' = [done EXCEPT !.pc = "done"]

\* -------------------------------------------------------------- handlers

\* The id the store gives the next inserted row: the INSERT names no id, the
\* table's id column is generated.
assigned_id == id_seq

\* An INSERT that supplies the id itself, the same one every time.
create_plugin_insert_fixed_id(t, description, wasm_url) ==
    LET plugin == Plugin(1, description, wasm_url) IN
    /\ Free(t)
    /\ plugins' = Append(plugins, plugin)
    /\ id_seq' = id_seq + 1
    /\ mutations' = mutations + 1
    /\ requests' = requests + 1
    /\ task' = [task EXCEPT ![t] = [IdleTask EXCEPT !.op = "create", !.pc = "send",
                                                    !.id = plugin.id, !.stmt = "ok",
                                                    !.form = <<PluginNew(description, wasm_url)>>,
                                                    !.plugin = <<plugin>>,
                                                    !.rows_affected = 1]]
    /\ UNCHANGED <<plugin_tx, conn, stderr, log, sends, last, created, removed>>

\* create_plugin up to its await: the INSERT runs, the store assigns the id
\* and returns the row.
create_plugin_insert(t, description, wasm_url) ==
    LET plugin == Plugin(assigned_id, description, wasm_url) IN
    /\ Free(t)
    /\ plugins' = Append(plugins, plugin)
    /\ id_seq' = id_seq + 1
    /\ mutations' = mutations + 1
    /\ requests' = requests + 1
    /\ task' = [task EXCEPT ![t] = [IdleTask EXCEPT !.op = "create", !.pc = "send",
                                                    !.id = plugin.id, !.stmt = "ok",
                                                    !.form = <<PluginNew(description, wasm_url)>>,
                                                    !.plugin = <<plugin>>,
                                                    !.rows_affected = 1]]
    /\ UNCHANGED <<plugin_tx, conn, stderr, log, sends, last, created, removed>>

\* A create that publishes the event for the id it expects before it has run
\* its INSERT, and fails at the statement.
create_plugin_insert_fails_after_send(t, consumed) ==
    LET msg == PluginUpdate("Create", assigned_id) IN
    /\ Free(t)
    /\ id_seq' = IF consumed THEN id_seq + 1 ELSE id_seq
    /\ requests' = requests + 1
    /\ plugin_tx' = send(plugin_tx, msg)
    /\ sends' = sends + 1
    /\ log' = IF send_is_err(plugin_tx) THEN log ELSE Append(log, msg)
    /\ Completed(t, [IdleTask EXCEPT !.op = "create", !.stmt = "err",
                                     !.resp = InternalFailure])
    /\ UNCHANGED <<plugins, conn, stderr, mutations, created, removed>>

\* create_plugin when the INSERT fails: .unwrap() panics, nothing is sent.
\* A failed INSERT may or may not have consumed a value of the id sequence.
create_plugin_insert_fails(t, consumed) ==
    /\ Free(t)
    /\ id_seq' = IF consumed THEN id_seq + 1 ELSE id_seq
    /\ requests' = requests + 1
    /\ Completed(t, [IdleTask EXCEPT !.op = "create", !.stmt = "err",
                                     !.resp = InternalFailure])
    /\ UNCHANGED <<plugins, plugin_tx, conn, stderr, log, sends, mutations,
                   created, removed>>

\* A create that unwraps the result of tx.send: with nobody listening the
\* handler panics instead of answering.
create_plugin_send_unwraps(t) ==
    LET plugin == task[t].plugin[1]
        form == task[t].form[1]
        msg == PluginUpdate("Create", plugin.id)
    IN
    /\ task[t].op = "create" /\ task[t].pc = "send"
    /\ plugin_tx' = send(plugin_tx, msg)
    /\ sends' = sends + 1
    /\ log' = IF send_is_err(plugin_tx) THEN log ELSE Append(log, msg)
    /\ Completed(t, [task[t] EXCEPT !.sent = IF send_is_err(plugin_tx) THEN "err" ELSE "ok",
                                    !.resp = IF send_is_err(plugin_tx)
                                             THEN InternalFailure
                                             ELSE PluginNewTemplate(plugin)])
    /\ created' = IF send_is_err(plugin_tx)
                  THEN created
                  ELSE created \cup {Plugin(plugin.id, form.description, form.wasm_url)}
    /\ UNCHANGED <<plugins, id_seq, conn, stderr, mutations, requests, removed>>

\* create_plugin after its await: tx.send, the diagnostic when nobody
\* listens, and the response.
create_plugin_send(t) ==
    LET plugin == task[t].plugin[1]
        form == task[t].form[1]
        msg == PluginUpdate("Create", plugin.id)
    IN
    /\ task[t].op = "create" /\ task[t].pc = "send"
    /\ plugin_tx' = send(plugin_tx, msg)
    /\ sends' = sends + 1
    /\ log' = IF send_is_err(plugin_tx) THEN log ELSE Append(log, msg)
    /\ stderr' = IF send_is_err(plugin_tx)
                 THEN stderr \cup {[what |-> "created", id |-> plugin.id]}
                 ELSE stderr
    /\ Completed(t, [task[t] EXCEPT !.sent = IF send_is_err(plugin_tx) THEN "err" ELSE "ok",
                                    !.resp = PluginNewTemplate(plugin)])
    /\ created' = created \cup {Plugin(plugin.id, form.description, form.wasm_url)}
    /\ UNCHANGED <<plugins, id_seq, conn, mutations, requests, removed>>

\* A delete that keeps the row and blanks its wasm_url instead of removing it.
delete_plugin_execute_blanks_row(t, id) ==
    /\ Free(t)
    /\ plugins' = [i \in 1..Len(plugins) |->
                      IF plugins[i].id = id
                      THEN Plugin(id, plugins[i].description, "")
                      ELSE plugins[i]]
    /\ mutations' = mutations + 1
    /\ requests' = requests + 1
    /\ removed' = removed
    /\ task' = [task EXCEPT ![t] = [IdleTask EXCEPT !.op = "delete", !.pc = "send",
                                                    !.id = id, !.stmt = "ok",
                                                    !.rows_affected = Len(RowsWithId(plugins, id))]]
    /\ UNCHANGED <<id_seq, plugin_tx, conn, stderr, log, sends, last, created>>

\* A delete that takes a DELETE matching no row for an error.
delete_plugin_execute_must_match(t, id) ==
    /\ Free(t)
    /\ plugins' = SelectSeq(plugins, LAMBDA r : r.id # id)
    /\ mutations' = mutations + 1
    /\ requests' = requests + 1
    /\ removed' = IF Len(plugins') < Len(plugins) THEN removed \cup {id} ELSE removed
    /\ IF Len(plugins') < Len(plugins)
       THEN /\ task' = [task EXCEPT ![t] = [IdleTask EXCEPT !.op = "delete", !.pc = "send",
                                                            !.id = id, !.stmt = "ok",
                                                            !.rows_affected = Len(plugins) - Len(plugins')]]
            /\ UNCHANGED last
       ELSE Completed(t, [IdleTask EXCEPT !.op = "delete", !.id = id, !.stmt = "ok",
                                          !.resp = InternalFailure])
    /\ UNCHANGED <<id_seq, plugin_tx, conn, stderr, log, sends, created>>

\* delete_plugin up to its await: the DELETE runs; matching no row is no error.
delete_plugin_execute(t, id) ==
    /\ Free(t)
    /\ plugins' = SelectSeq(plugins, LAMBDA r : r.id # id)
    /\ mutations' = mutations + 1
    /\ requests' = requests + 1
    /\ removed' = IF Len(plugins') < Len(plugins) THEN removed \cup {id} ELSE removed
    /\ task' = [task EXCEPT ![t] = [IdleTask EXCEPT !.op = "delete", !.pc = "send",
                                                    !.id = id, !.stmt = "ok",
                                                    !.rows_affected = Len(plugins) - Len(plugins')]]
    /\ UNCHANGED <<id_seq, plugin_tx, conn, stderr, log, sends, last, created>>

\* A delete that ignores the statement's error and carries on to tx.send.
delete_plugin_execute_ignores_error(t, id) ==
    LET msg == PluginUpdate("Delete", id) IN
    /\ Free(t)
    /\ requests' = requests + 1
    /\ plugin_tx' = send(plugin_tx, msg)
    /\ sends' = sends + 1
    /\ log' = IF send_is_err(plugin_tx) THEN log ELSE Append(log, msg)
    /\ Completed(t, [IdleTask EXCEPT !.op = "delete", !.id = id, !.stmt = "err",
                                     !.sent = IF send_is_err(plugin_tx) THEN "err" ELSE "ok",
                                     !.resp = StatusOK])
    /\ UNCHANGED <<plugins, id_seq, conn, stderr, mutations, created, removed>>

\* delete_plugin when the DELETE fails: .unwrap() panics, nothing is sent.
delete_plugin_execute_fails(t, id) ==
    /\ Free(t)
    /\ requests' = requests + 1
    /\ Completed(t, [IdleTask EXCEPT !.op = "delete", !.id = id, !.stmt = "err",
                                     !.resp = InternalFailure])
    /\ UNCHANGED <<plugins, id_seq, plugin_tx, conn, stderr, log, sends, mutations,
                   created, removed>>

\* A delete that publishes only when its DELETE removed a row.
delete_plugin_send_if_found(t) ==
    LET id == task[t].id
        msg == PluginUpdate("Delete", id)
        skip == task[t].rows_affected = 0
        err == ~skip /\ send_is_err(plugin_tx)
    IN
    /\ task[t].op = "delete" /\ task[t].pc = "send"
    /\ plugin_tx' = IF skip THEN plugin_tx ELSE send(plugin_tx, msg)
    /\ sends' = IF skip THEN sends ELSE sends + 1
    /\ log' = IF skip \/ err THEN log ELSE Append(log, msg)
    /\ stderr' = IF err THEN stderr \cup {[what |-> "deleted", id |-> id]} ELSE stderr
    /\ Completed(t, [task[t] EXCEPT !.sent = IF skip THEN "none" ELSE IF err THEN "err" ELSE "ok",
                                    !.resp = StatusOK])
    /\ UNCHANGED <<plugins, id_seq, conn, mutations, requests, created, removed>>

\* delete_plugin after its await: tx.send, the diagnostic when nobody
\* listens, and StatusCode::OK.
delete_plugin_send(t) ==
    LET id == task[t].id
        msg == PluginUpdate("Delete", id)
    IN
    /\ task[t].op = "delete" /\ task[t].pc = "send"
    /\ plugin_tx' = send(plugin_tx, msg)
    /\ sends' = sends + 1
    /\ log' = IF send_is_err(plugin_tx) THEN log ELSE Append(log, msg)
    /\ stderr' = IF send_is_err(plugin_tx)
                 THEN stderr \cup {[what |-> "deleted", id |-> id]}
                 ELSE stderr
    /\ Completed(t, [task[t] EXCEPT !.sent = IF send_is_err(plugin_tx) THEN "err" ELSE "ok",
                                    !.resp = StatusOK])
    /\ UNCHANGED <<plugins, id_seq, conn, mutations, requests, created, removed>>

\* A list that fetches one row instead of all of them.
fetch_plugins_one_row(t) ==
    /\ Free(t)
    /\ requests' = requests + 1
    /\ Completed(t, [IdleTask EXCEPT !.op = "list", !.stmt = "ok",
                                     !.resp = PluginRecords(IF plugins = <<>>
                                                            THEN <<>>
                                                            ELSE <<plugins[1]>>)])
    /\ UNCHANGED <<plugins, id_seq, plugin_tx, conn, stderr, log, sends, mutations,
                   created, removed>>

\* fetch_plugins: SELECT * FROM PLUGINS, rendered as the list.
fetch_plugins(t) ==
    /\ Free(t)
    /\ requests' = requests + 1
    /\ Completed(t, [IdleTask EXCEPT !.op = "list", !.stmt = "ok",
                                     !.resp = PluginRecords(plugins)])
    /\ UNCHANGED <<plugins, id_seq, plugin_tx, conn, stderr, log, sends, mutations,
                   created, removed>>

\* A list that answers with what it has when the SELECT fails.
fetch_plugins_fails_softly(t) ==
    /\ Free(t)
    /\ requests' = requests + 1
    /\ Completed(t, [IdleTask EXCEPT !.op = "list", !.stmt = "err",
                                     !.resp = PluginRecords(<<>>)])
    /\ UNCHANGED <<plugins, id_seq, plugin_tx, conn, stderr, log, sends, mutations,
                   created, removed>>

\* fetch_plugins when the SELECT fails: .unwrap() panics.
fetch_plugins_fails(t) ==
    /\ Free(t)
    /\ requests' = requests + 1
    /\ Completed(t, [IdleTask EXCEPT !.op = "list", !.stmt = "err",
                                     !.resp = InternalFailure])
    /\ UNCHANGED <<plugins, id_seq, plugin_tx, conn, stderr, log, sends, mutations,
                   created, removed>>

\* ------------------------------------------------------- SSE connections

\* A stream that announces itself to every subscriber when it is opened.
handle_plugin_stream_announces(c) ==
    LET s == subscribe(plugin_tx)
        msg == PluginUpdate("Create", 0)
    IN
    /\ Unused(c)
    /\ plugin_tx' = send(s.ch, msg)
    /\ log' = Append(log, msg)
    /\ conn' = [conn EXCEPT ![c] = [NoConn EXCEPT !.state = "open", !.next = s.next,
                                                  !.since = plugin_tx.pos]]
    /\ UNCHANGED <<plugins, id_seq, task, stderr, sends, mutations, requests,
                   last, created, removed>>

\* handle_plugin_stream: tx.subscribe() and the stream built on the receiver.
handle_plugin_stream(c) ==
    LET s == subscribe(plugin_tx) IN
    /\ Unused(c)
    /\ plugin_tx' = s.ch
    /\ conn' = [conn EXCEPT ![c] = [NoConn EXCEPT !.state = "open", !.next = s.next,
                                                  !.since = plugin_tx.pos]]
    /\ UNCHANGED <<plugins, id_seq, task, stderr, log, sends, mutations, requests,
                   last, created, removed>>

\* A stream that skips over a Lagged item and carries on from the oldest
\* message the ring still holds.
stream_next_continues(c) ==
    LET r == recv(plugin_tx, conn[c].next) IN
    /\ conn[c].state = "open"
    /\ r.kind # "Empty"
    /\ IF r.kind = "Ok"
       THEN conn' = [conn EXCEPT ![c].next = r.next,
                                 ![c].frames = Append(@, DataFrame(r.val)),
                                 ![c].got = Append(@, r.pos),
                                 ![c].idle = 0]
       ELSE conn' = [conn EXCEPT ![c].next = r.next]
    /\ UNCHANGED <<plugins, id_seq, plugin_tx, task, stderr, log, sends, mutations,
                   requests, last, created, removed>>

\* One item of the stream: the receiver's next message mapped to a data
\* frame, which restarts the keep-alive timer; on Lagged msg.unwrap() panics,
\* which ends the connection and drops its receiver.
stream_next(c) ==
    LET r == recv(plugin_tx, conn[c].next) IN
    /\ conn[c].state = "open"
    /\ r.kind # "Empty"
    /\ IF r.kind = "Ok"
       THEN /\ conn' = [conn EXCEPT ![c].next = r.next,
                                    ![c].frames = Append(@, DataFrame(r.val)),
                                    ![c].got = Append(@, r.pos),
                                    ![c].idle = 0]
            /\ UNCHANGED plugin_tx
       ELSE /\ conn' = [conn EXCEPT ![c].state = "terminated",
                                    ![c].next = r.next,
                                    ![c].died = plugin_tx.pos]
            /\ plugin_tx' = drop_receiver(plugin_tx)
    /\ UNCHANGED <<plugins, id_seq, task, stderr, log, sends, mutations, requests,
                   last, created, removed>>

\* The client disconnects: the stream and its receiver are dropped.
stream_closed(c) ==
    /\ conn[c].state = "open"
    /\ plugin_tx' = drop_receiver(plugin_tx)
    /\ conn' = [conn EXCEPT ![c] = NoConn]
    /\ UNCHANGED <<plugins, id_seq, task, stderr, log, sends, mutations, requests,
                   last, created, removed>>

\* ------------------------------------------------------------- keep-alive

Min(a, b) == IF a < b THEN a ELSE b

\* .text("keep-alive-text"): a comment frame; after is the number of data
\* frames the connection was sent before it.
KeepAliveFrame(after) == [comment |-> "keep-alive-text", after |-> after]

\* Time passes: every open connection has been silent for one Tick longer
\* (counted up to the interval, where its timer is due).
time_passes ==
    /\ \E c \in Conns : conn[c].state = "open" /\ conn[c].idle < KeepAliveInterval
    /\ conn' = [c \in Conns |->
                   IF conn[c].state = "open"
                   THEN [conn[c] EXCEPT !.idle = Min(@ + Tick, KeepAliveInterval)]
                   ELSE conn[c]]
    /\ UNCHANGED <<plugins, id_seq, plugin_tx, task, stderr, log, sends, mutations,
                   requests, last, created, removed>>

\* A keep-alive whose tick takes the place of the event that is waiting.
keep_alive_takes_event(c) ==
    LET r == recv(plugin_tx, conn[c].next) IN
    /\ conn[c].state = "open"
    /\ conn[c].idle >= KeepAliveInterval
    /\ conn' = [conn EXCEPT ![c].idle = 0,
                             ![c].next = IF r.kind = "Empty" THEN @ ELSE r.next,
                             ![c].comments = Append(@, KeepAliveFrame(Len(conn[c].frames)))]
    /\ UNCHANGED <<plugins, id_seq, plugin_tx, task, stderr, log, sends, mutations,
                   requests, last, created, removed>>

\* .keep_alive(...): the response body polls the event stream first and, only
\* when that has nothing ready, the timer; a due timer yields the comment
\* frame and is restarted.
keep_alive(c) ==
    /\ conn[c].state = "open"
    /\ recv(plugin_tx, conn[c].next).kind = "Empty"
    /\ conn[c].idle >= KeepAliveInterval
    /\ conn' = [conn EXCEPT ![c].idle = 0,
                             ![c].comments = Append(@, KeepAliveFrame(Len(conn[c].frames)))]
    /\ UNCHANGED <<plugins, id_seq, plugin_tx, task, stderr, log, sends, mutations,
                   requests, last, created, removed>>

\* ---------------------------------------------------------- specification

Next ==
    \/ \E t \in Tasks, d \in Descriptions, u \in WasmUrls :
          requests < MaxRequests /\ create_plugin_insert(t, d, u)
    \/ \E t \in Tasks, consumed \in BOOLEAN :
          requests < MaxRequests /\ create_plugin_insert_fails(t, consumed)
    \/ \E t \in Tasks : create_plugin_send(t)
    \/ \E t \in Tasks, id \in DeleteIds :
          requests < MaxRequests /\ delete_plugin_execute(t, id)
    \/ \E t \in Tasks, id \in DeleteIds :
          requests < MaxRequests /\ delete_plugin_execute_fails(t, id)
    \/ \E t \in Tasks : delete_plugin_send(t)
    \/ \E t \in Tasks : requests < MaxRequests /\ fetch_plugins(t)
    \/ \E t \in Tasks : requests < MaxRequests /\ fetch_plugins_fails(t)
    \/ \E c \in Conns : handle_plugin_stream(c)
    \/ \E c \in Conns : stream_next(c)
    \/ \E c \in Conns : stream_closed(c)

Spec == Init /\ [][Next]_vars

\* The same server under a long run of requests, enough of them for a
\* connection that does not read to be overrun: one request at a time, first
\* the creates and then deletes that name the ids in turn, and connections
\* that stay open.
NextLag ==
    \/ \E d \in Descriptions, u \in WasmUrls :
          /\ requests < MaxCreatesLag
          /\ requests = id_seq - 1
          /\ create_plugin_insert(1, d, u)
    \/ create_plugin_send(1)
    \/ requests < MaxRequestsLag /\ delete_plugin_execute(1, requests)
    \/ delete_plugin_send(1)
    \/ \E c \in Conns : handle_plugin_stream(c)
    \/ \E c \in Conns : stream_next(c)

SpecLag == Init /\ [][NextLag]_vars

\* The server over a long time: a few creates and deletes, one connection
\* slot that is opened and closed, and the clock.  A connection task that has
\* an item or a due timer is polled by the runtime, hence the weak fairness.
NextAlive ==
    \/ \E d \in Descriptions, u \in WasmUrls :
          requests < MaxRequestsAlive /\ create_plugin_insert(1, d, u)
    \/ create_plugin_send(1)
    \/ \E id \in DeleteIds : requests < MaxRequestsAlive /\ delete_plugin_execute(1, id)
    \/ delete_plugin_send(1)
    \/ handle_plugin_stream(1)
    \/ stream_next(1)
    \/ stream_closed(1)
    \/ Len(conn[1].comments) < MaxKeepAlives /\ time_passes
    \/ keep_alive(1)

SpecAlive ==
    /\ Init
    /\ [][NextAlive]_vars
    /\ WF_vars(keep_alive(1)) /\ WF_vars(stream_next(1))

\* ------------------------------------------------------------------ claims

InFlight == {t \in Tasks : task[t].pc = "send"}

\* C1: the number of events handed to tx.send equals the number of store
\* mutations that succeeded, less the handlers that have run their statement
\* and not yet resumed; once no handler is in flight the two are equal, so
\* each successful INSERT or DELETE publishes exactly one event and a failed
\* one publishes none.
C1_OneEventPerMutation ==
    /\ sends + Cardinality(InFlight) = mutations
    /\ InFlight = {} => sends = mutations

C1_Witness ==
    /\ InFlight = {}
    /\ mutations = 2
    /\ sends = 2
    /\ last.op \in {"create", "delete"}
    /\ last.resp = InternalFailure

\* What connection c has not read yet, and whether the ring has been
\* overwritten under it (it lags).
Unread(c) == plugin_tx.pos - conn[c].next

Overrun(c) == Unread(c) > BufferLen

Times(seq, x) == Cardinality({i \in 1..Len(seq) : seq[i] = x})

\* C2: for an open connection that does not lag, each event the channel
\* accepted after it subscribed has been received exactly once or is still in
\* the ring as its next unread events (so the next poll yields it), and no
\* event accepted before it subscribed was ever received: no backlog.
C2_DeliveredOnceNoBacklog ==
    \A c \in Conns :
        (conn[c].state = "open" /\ ~Overrun(c)) =>
            LET k == conn[c] IN
            /\ Len(k.frames) = Len(k.got)
            /\ \A i \in 1..Len(k.got) : k.got[i] \in k.since..(plugin_tx.pos - 1)
            /\ \A p \in 0..(k.since - 1) : Times(k.got, p) = 0
            /\ \A p \in k.since..(plugin_tx.pos - 1) :
                  IF p < k.next
                  THEN Times(k.got, p) = 1
                  ELSE /\ Times(k.got, p) = 0
                       /\ plugin_tx.buffer[p % BufferLen] = [pos |-> p, val |-> log[p + 1]]
            /\ k.next < plugin_tx.pos =>
                  /\ recv(plugin_tx, k.next).kind = "Ok"
                  /\ recv(plugin_tx, k.next).pos = k.next

C2_Witness ==
    \E c, d \in Conns :
        /\ conn[c].state = "open" /\ conn[d].state = "open"
        /\ conn[d].since = 0 /\ conn[c].since >= 2
        /\ Len(conn[c].got) >= 2
        /\ Unread(c) = 0
        /\ Len(conn[d].got) > Len(conn[c].got)

\* C3: a connection that stays open and does not lag emits its frames in
\* publish order: the positions it read increase one by one and frame i is
\* the frame of the event published at that position; two such connections
\* open over the same interval emit the same sequence, one a prefix of the
\* other while one of them still has events to read.
C3_PublishOrder ==
    /\ \A c \in Conns :
          (conn[c].state = "open" /\ ~Overrun(c)) =>
              /\ \A i \in 1..Len(conn[c].got) : conn[c].got[i] = conn[c].since + i - 1
              /\ \A i \in 1..Len(conn[c].frames) :
                    conn[c].frames[i] = DataFrame(log[conn[c].since + i])
    /\ \A c, d \in Conns :
          (/\ conn[c].state = "open" /\ ~Overrun(c)
           /\ conn[d].state = "open" /\ ~Overrun(d)
           /\ conn[c].since = conn[d].since
           /\ Len(conn[c].frames) <= Len(conn[d].frames)) =>
              conn[c].frames = SubSeq(conn[d].frames, 1, Len(conn[c].frames))

C3_Witness ==
    \E c, d \in Conns :
        /\ c # d
        /\ conn[c].state = "open" /\ conn[d].state = "open"
        /\ conn[c].since = conn[d].since
        /\ Len(conn[c].frames) = 3 /\ Len(conn[d].frames) = 3
        /\ conn[c].frames[1] # conn[c].frames[2]
        /\ conn[c].frames[2] # conn[c].frames[3]

\* The steps of the handlers, as seen on the state.
StatementRuns(t, op) ==
    /\ task[t].pc = "idle"
    /\ task'[t].pc = "send"
    /\ task'[t].op = op

Resumes(t, op) ==
    /\ task[t].pc = "send"
    /\ task[t].op = op
    /\ task'[t].pc = "idle"

ListAnswers ==
    /\ requests' = requests + 1
    /\ task' = task
    /\ last'.op = "list"
    /\ last'.resp.status = 200

\* C4: no two rows of the store have the same id, and the id a create has
\* been given belongs to no other row of the store and to no other create in
\* flight, however creates and deletes interleave.
C4_UniqueIds ==
    /\ \A i, j \in 1..Len(plugins) : plugins[i].id = plugins[j].id => i = j
    /\ \A t \in InFlight :
          task[t].op = "create" =>
              /\ \A i \in 1..Len(plugins) :
                    plugins[i].id = task[t].id => plugins[i] = task[t].plugin[1]
              /\ \A o \in InFlight \ {t} :
                    task[o].op = "create" => task[o].id # task[t].id
    /\ \A p, q \in created : p.id = q.id => p = q

C4_Witness ==
    \E t, o \in InFlight :
        /\ task[t].op = "create"
        /\ task[o].op = "delete"
        /\ removed # {}
        /\ Len(plugins) = 1
        /\ plugins[1].id = task[t].id
        /\ task[t].id \notin removed

\* C5: a list answered after a create of (d, u) was answered with id i, and
\* before any DELETE removed i, holds exactly one record with id i, and that
\* record is (i, d, u).
C5_CreatedIsListed ==
    [][ListAnswers =>
          \A p \in created :
              p.id \notin removed => RowsWithId(last'.resp.body.plugins, p.id) = <<p>>]_vars

C5_Witness ==
    /\ last.op = "list"
    /\ last.resp.status = 200
    /\ Len(last.resp.body.plugins) = 2
    /\ \E p \in created :
          /\ p.id \notin removed
          /\ p.description \in Descriptions /\ p.wasm_url \in WasmUrls
          /\ RowsWithId(last.resp.body.plugins, p.id) = <<p>>

\* C6: once a DELETE has removed the row of an id, the store and every list
\* answered later hold no record with that id; a further delete of that id
\* leaves the store unchanged and, its statement having run, answers 200.
C6_DeleteIsFinalAndRepeatable ==
    /\ [](\A i \in removed : RowsWithId(plugins, i) = <<>>)
    /\ [][ListAnswers =>
             \A i \in removed : RowsWithId(last'.resp.body.plugins, i) = <<>>]_vars
    /\ [][\A t \in Tasks :
             (StatementRuns(t, "delete") /\ task'[t].id \in removed) =>
                 plugins' = plugins]_vars
    /\ []((last.op = "delete" /\ last.stmt = "ok") => last.resp = StatusOK)

C6_Witness ==
    /\ last.op = "delete"
    /\ last.stmt = "ok"
    /\ last.id \in removed
    /\ last.rows_affected = 0
    /\ last.resp = StatusOK
    /\ created # {}

\* The unread events of connection c that the ring no longer holds.
Lost(c) ==
    {p \in conn[c].next..(plugin_tx.pos - 1) : plugin_tx.buffer[p % BufferLen].pos # p}

\* C7: a handler that has run its statement can always take its send step
\* and answer, whatever the connections have left unread; of a connection's
\* unread events exactly the oldest ones beyond what the ring holds are lost,
\* so a connection with at most 10 unread events (the capacity asked for) has
\* lost none and one with more unread events than the ring holds has lost
\* its oldest.
C7_SendNeverBlocks ==
    /\ \A t \in InFlight : ENABLED (create_plugin_send(t) \/ delete_plugin_send(t))
    /\ \A c \in Conns :
          conn[c].state = "open" =>
              /\ Lost(c) = conn[c].next..(plugin_tx.pos - BufferLen - 1)
              /\ Unread(c) <= ChannelCapacity => Lost(c) = {}
              /\ Unread(c) > BufferLen => Lost(c) # {}

C7_Witness ==
    \E c, d \in Conns :
        /\ conn[c].state = "open" /\ conn[d].state = "open"
        /\ Unread(c) > BufferLen
        /\ Lost(c) = {conn[c].next}
        /\ Unread(d) = ChannelCapacity
        /\ Lost(d) = {}
        /\ last.sent = "ok"
        /\ InFlight = {}

\* C8: when a create or a delete reaches tx.send while no receiver exists,
\* the send step leaves the store as the statement left it (a created row not
\* removed since is still there), writes the diagnostic and answers as on
\* success: the created record for a create, 200 for a delete.
C8_NoSubscriberIsNoError ==
    [][\A t \in Tasks :
          ((Resumes(t, "create") \/ Resumes(t, "delete")) /\ send_is_err(plugin_tx)) =>
              /\ plugins' = plugins
              /\ mutations' = mutations
              /\ last'.sent = "err"
              /\ last'.resp = IF task[t].op = "create"
                              THEN PluginNewTemplate(task[t].plugin[1])
                              ELSE StatusOK
              /\ stderr' = stderr \cup
                    {[what |-> IF task[t].op = "create" THEN "created" ELSE "deleted",
                      id |-> task[t].id]}
              /\ (task[t].op = "create" /\ task[t].id \notin removed) =>
                    RowsWithId(plugins', task[t].id) = task[t].plugin]_vars

C8_Witness ==
    /\ last.op = "create"
    /\ last.sent = "err"
    /\ last.resp = PluginNewTemplate(last.plugin[1])
    /\ RowsWithId(plugins, last.id) = last.plugin
    /\ [what |-> "created", id |-> last.id] \in stderr
    /\ [what |-> "deleted", id |-> 2] \in stderr

\* C9: a connection whose receiver reports Lagged terminates at that poll
\* and emits no frame then or later; that step changes neither the store nor
\* any other connection; every other open connection that does not lag still
\* has read, in order, the events since it subscribed and finds its next one
\* ready; and a send made while a connection is open finds a receiver.
C9_LagEndsOneStream ==
    /\ [][\A c \in Conns :
             (/\ conn[c].state = "open"
              /\ recv(plugin_tx, conn[c].next).kind = "Lagged"
              /\ conn'[c] # conn[c]) =>
                 /\ conn'[c].state = "terminated"
                 /\ conn'[c].frames = conn[c].frames
                 /\ plugins' = plugins
                 /\ \A d \in Conns \ {c} : conn'[d] = conn[d]]_vars
    /\ [][\A c \in Conns : conn[c].state = "terminated" => conn'[c] = conn[c]]_vars
    /\ [](\A c, d \in Conns :
             (conn[c].state = "terminated" /\ conn[d].state = "open" /\ ~Overrun(d)) =>
                 /\ \A i \in 1..Len(conn[d].frames) :
                       conn[d].frames[i] = DataFrame(log[conn[d].since + i])
                 /\ conn[d].next = conn[d].since + Len(conn[d].frames)
                 /\ recv(plugin_tx, conn[d].next).kind =
                       IF Unread(d) = 0 THEN "Empty" ELSE "Ok")
    /\ []((\E d \in Conns : conn[d].state = "open") => ~send_is_err(plugin_tx))

C9_Witness ==
    \E c, d \in Conns :
        /\ conn[c].state = "terminated"
        /\ conn[d].state = "open"
        /\ Len(conn[d].got) > 0
        /\ conn[d].got[Len(conn[d].got)] >= conn[c].died
        /\ conn[d].since < conn[c].died
        /\ plugins # <<>>

\* C10: a delete naming an id that is in no row leaves the store unchanged
\* and goes on to its send step; every delete that reaches its send step,
\* whether its DELETE removed a row or none, hands one Delete event carrying
\* the id of the request to tx.send and answers 200.
C10_DeleteOfAbsentId ==
    /\ [][\A t \in Tasks :
             (/\ task[t].pc = "idle"
              /\ task'[t].op = "delete"
              /\ task'[t].stmt = "ok"
              /\ task'[t].id \notin Ids(plugins)) =>
                 /\ plugins' = plugins
                 /\ task'[t].pc = "send"
                 /\ task'[t].rows_affected = 0]_vars
    /\ [][\A t \in Tasks :
             Resumes(t, "delete") =>
                 /\ sends' = sends + 1
                 /\ log' = IF send_is_err(plugin_tx)
                           THEN log
                           ELSE Append(log, PluginUpdate("Delete", task[t].id))
                 /\ plugin_tx' = send(plugin_tx, PluginUpdate("Delete", task[t].id))
                 /\ last'.resp = StatusOK]_vars

C10_Witness ==
    /\ last.op = "delete"
    /\ last.rows_affected = 0
    /\ last.sent = "ok"
    /\ last.resp = StatusOK
    /\ plugins # <<>>
    /\ log # <<>>
    /\ log[Len(log)] = PluginUpdate("Delete", last.id)
    /\ last.id \notin removed

\* A request whose statement fails: it starts and ends in one step.
StatementFails ==
    /\ requests' = requests + 1
    /\ task' = task
    /\ last'.stmt = "err"

\* C11: a create, delete or list whose statement fails ends at once with the
\* internal failure and an empty body (a failed list shows no rows); the step
\* publishes nothing, leaves the rows of the store, the channel, the
\* connections and the handlers in flight as they were, counts as no
\* mutation, and runs no second statement.
C11_StoreFailureEndsRequest ==
    [][StatementFails =>
          /\ last'.op \in {"create", "delete", "list"}
          /\ last'.resp = InternalFailure
          /\ last'.resp.body.plugins = <<>>
          /\ last'.sent = "none"
          /\ plugins' = plugins
          /\ mutations' = mutations
          /\ sends' = sends
          /\ log' = log
          /\ plugin_tx' = plugin_tx
          /\ conn' = conn
          /\ stderr' = stderr
          /\ created' = created /\ removed' = removed]_vars

C11_Witness ==
    /\ last.op = "list"
    /\ last.stmt = "err"
    /\ last.resp = InternalFailure
    /\ plugins # <<>>
    /\ InFlight # {}
    /\ \E c \in Conns : conn[c].state = "open"

\* Connection c is sent a keep-alive frame in this step.
KeepAliveSent(c) == Len(conn'[c].comments) > Len(conn[c].comments)

\* The timer of the open connection c is due.
Due(c) == conn[c].state = "open" /\ conn[c].idle >= KeepAliveInterval

\* C12: an open connection whose timer is due after 600 seconds without a
\* frame is sent a keep-alive frame, unless a data frame comes first or the
\* connection ends; a keep-alive frame is sent only when the timer is due and
\* no event is waiting, it leaves the connection open and its read position,
\* data frames and the channel as they were; and an event that is waiting on
\* an open connection can always be taken next, whatever the timer says, and
\* is taken unless the connection ends.
C12_KeepAlive ==
    /\ [][\A c \in Conns :
            KeepAliveSent(c) =>
                /\ Due(c)
                /\ Unread(c) = 0
                /\ conn'[c].state = "open"
                /\ conn'[c].next = conn[c].next
                /\ conn'[c].frames = conn[c].frames
                /\ conn'[c].got = conn[c].got
                /\ conn'[c].comments =
                       Append(conn[c].comments, KeepAliveFrame(Len(conn[c].frames)))
                /\ plugin_tx' = plugin_tx
                /\ log' = log]_vars
    /\ [](\A c \in Conns :
            (conn[c].state = "open" /\ Unread(c) > 0) => ENABLED stream_next(c))
    /\ \A c \in Conns : \A k \in 0..MaxKeepAlives :
            (Due(c) /\ Len(conn[c].comments) = k)
                ~> \/ conn[c].state # "open"
                   \/ Len(conn[c].comments) = k + 1
                   \/ conn[c].idle < KeepAliveInterval
    /\ \A c \in Conns : \A n \in 0..MaxRequestsAlive :
            (conn[c].state = "open" /\ conn[c].next = n /\ Unread(c) > 0)
                ~> (conn[c].state # "open" \/ conn[c].next > n)

\* A connection that was silent for the interval got its keep-alive frame
\* before any data frame, stayed open and was then sent a data frame.
C12_Witness ==
    \E c \in Conns :
        /\ conn[c].state = "open"
        /\ Len(conn[c].comments) >= 1
        /\ conn[c].comments[1].after = 0
        /\ Len(conn[c].frames) >= 1

\* What a client reads out of a frame: the kind and id of a data frame that
\* is a <div> around the object with the keys id and mutation_kind.
Decode(f) ==
    IF /\ DOMAIN f = {"data"}
       /\ Len(f.data) = 7
       /\ f.data[1] = "<div>" /\ f.data[7] = "</div>"
       /\ f.data[2] = "{\"id\":" /\ f.data[4] = ",\"mutation_kind\":\"" /\ f.data[6] = "\"}"
    THEN PluginUpdate(f.data[5], f.data[3])
    ELSE NoUpdate

\* Connection c is sent a data frame in this step.
DataFrameSent(c) == Len(conn'[c].frames) > Len(conn[c].frames)

\* C13: the row a create handler holds after its INSERT is the row the store
\* added, under an id no row had; when the handler resumes it answers with
\* that row and the event it hands to the channel is Create with that row's
\* id; the event a delete handler hands over is Delete with the id of its
\* path; and a connection that takes an event is sent exactly one more frame,
\* a data frame that reads back as the kind and id of that event.
C13_EventCarriesKindAndId ==
    [][/\ \A t \in Tasks :
            /\ StatementRuns(t, "create") =>
                  /\ Len(plugins') = Len(plugins) + 1
                  /\ task'[t].plugin = <<plugins'[Len(plugins')]>>
                  /\ task'[t].plugin[1].id \notin Ids(plugins)
            /\ Resumes(t, "create") =>
                  /\ last'.resp = PluginNewTemplate(task[t].plugin[1])
                  /\ log' = IF plugin_tx.rx_cnt = 0
                            THEN log
                            ELSE Append(log, PluginUpdate("Create", task[t].plugin[1].id))
            /\ Resumes(t, "delete") =>
                  /\ log' = IF plugin_tx.rx_cnt = 0
                            THEN log
                            ELSE Append(log, PluginUpdate("Delete", task[t].id))
       /\ \A c \in Conns :
            DataFrameSent(c) =>
                LET k == conn'[c]
                    n == Len(k.frames)
                IN
                /\ n = Len(conn[c].frames) + 1
                /\ SubSeq(k.frames, 1, n - 1) = conn[c].frames
                /\ Len(k.got) = n
                /\ k.got[n] + 1 \in 1..Len(log)
                /\ Decode(k.frames[n]) = log[k.got[n] + 1]
                /\ log[k.got[n] + 1].mutation_kind \in {"Create", "Delete"}]_vars

\* A connection was sent the frame of a create and then the frame of a
\* delete, and the create was answered with the id of its frame.
C13_Witness ==
    /\ \E c \in Conns :
          /\ Len(conn[c].frames) >= 2
          /\ Decode(conn[c].frames[1]) = PluginUpdate("Create", 1)
          /\ Decode(conn[c].frames[2]) = PluginUpdate("Delete", 1)
    /\ \E r \in created : r.id = 1

\* The rows of a table that are kept from one state to the next.
Kept(rows, rows2) == SelectSeq(rows, LAMBDA r : r.id \in Ids(rows2))

\* C14: every step leaves each row that stays in the store as it was, with
\* its id, description and wasm_url, and in its place among the rows that
\* stay; a step adds at most one row, under an id the store did not hold, or
\* removes rows, never both; and a row of an answered create is stored with
\* the description and wasm_url of its request for as long as it is stored.
C14_RowsNeverChange ==
    /\ [][/\ Kept(plugins', plugins) = Kept(plugins, plugins')
          /\ \/ plugins' = plugins
             \/ /\ Len(plugins') = Len(plugins) + 1
                /\ SubSeq(plugins', 1, Len(plugins)) = plugins
                /\ plugins'[Len(plugins')].id \notin Ids(plugins)
             \/ /\ Len(plugins') < Len(plugins)
                /\ plugins' = Kept(plugins, plugins')]_vars
    /\ [](\A i \in 1..Len(plugins) :
            \A r \in created : r.id = plugins[i].id => r = plugins[i])

\* Two rows were stored, the older was deleted and the newer is still the
\* row its create was answered with.
C14_Witness ==
    /\ Len(plugins) = 1
    /\ plugins[1].id = 2
    /\ plugins[1] \in created
    /\ 1 \in removed

\* The ids of the rows the store has held so far: those it holds and those a
\* DELETE removed.
Inserted == Ids(plugins) \cup removed

\* A step that hands an event to tx.send.
Publishes == sends' # sends \/ log' # log \/ plugin_tx'.pos # plugin_tx.pos

\* C15: every step that hands an event to the channel is the resumption of
\* one handler whose statement had already run with success in an earlier
\* step; a create handler publishes the id of a row that was inserted before
\* the step (it is stored or was removed since), and a delete handler
\* publishes the id of its DELETE, whose removed rows are gone before the
\* step; the publishing step itself leaves the store as it is.
C15_PublishAfterMutation ==
    [][Publishes =>
          /\ sends' = sends + 1
          /\ sends < mutations
          /\ plugins' = plugins
          /\ \E t \in Tasks :
                /\ task[t].pc = "send" /\ task'[t].pc = "idle"
                /\ task[t].stmt = "ok"
                /\ \A u \in Tasks \ {t} : task'[u] = task[u]
                /\ last'.op = task[t].op /\ last'.id = task[t].id
                /\ log' # log => log' = Append(log, PluginUpdate(
                                     IF task[t].op = "create" THEN "Create" ELSE "Delete",
                                     task[t].id))
                /\ task[t].op = "create" =>
                      /\ task[t].id \in Inserted
                      /\ task[t].id < id_seq
                /\ task[t].op = "delete" =>
                      /\ task[t].rows_affected > 0 => task[t].id \in removed
                      /\ task[t].rows_affected = 0 \/ task[t].id \notin Ids(plugins)]_vars

\* A delete handler has published Delete for a row it removed, after the
\* Create of that row was published, while a second create is between its
\* INSERT and its send.
C15_Witness ==
    /\ last.op = "delete" /\ last.sent = "ok" /\ last.rows_affected = 1
    /\ last.id \in removed
    /\ log = <<PluginUpdate("Create", last.id), PluginUpdate("Delete", last.id)>>
    /\ \E t \in Tasks : task[t].pc = "send" /\ task[t].op = "create"

\* The event of kind and id has been handed to tx.send: the channel accepted
\* it, or it found no receiver and the handler wrote its line to stderr.
Published(mutation_kind, id) ==
    \/ \E k \in 1..Len(log) : log[k] = PluginUpdate(mutation_kind, id)
    \/ [what |-> IF mutation_kind = "Create" THEN "created" ELSE "deleted", id |-> id]
           \in stderr

\* The places of an event among the frames a connection was sent.
Places(c, mutation_kind, id) ==
    {k \in 1..Len(conn[c].frames) :
        Decode(conn[c].frames[k]) = PluginUpdate(mutation_kind, id)}

\* C16: once the delete handler that removed the row of an id has published
\* its Delete event, the Create event of that id has been published; and on
\* a connection that was sent both, the Create frame of a removed row comes
\* before the last Delete frame of its id.
C16_CreateBeforeDelete ==
    /\ (last.op = "delete" /\ last.rows_affected > 0 /\ last.sent # "none")
          => Published("Create", last.id)
    /\ \A c \in Conns : \A i \in removed :
          (Places(c, "Create", i) # {} /\ Places(c, "Delete", i) # {}) =>
              \E k \in Places(c, "Delete", i) : \A j \in Places(c, "Create", i) : j < k

\* The SSE connections that are open.
Open == {c \in Conns : conn[c].state = "open"}

\* C17: the receivers the channel counts are exactly the open SSE
\* connections: none when the server starts serving, one more for each
\* connection opened and one fewer for each connection that is closed or
\* dies; so a step that publishes comes back with the error of having no
\* receiver, and writes its line to stderr, exactly when no SSE connection
\* is open, and otherwise the channel takes the event.
C17_NoSubscribersIffNoneOpen ==
    /\ [](plugin_tx.rx_cnt = Cardinality(Open))
    /\ [](send_is_err(plugin_tx) <=> Open = {})
    /\ [][Publishes =>
            /\ last'.sent = "err" <=> Open = {}
            /\ last'.sent = "ok" <=> Open # {}
            /\ Open = {} => (log' = log /\ stderr' # {} /\ plugin_tx' = plugin_tx)
            /\ Open # {} => (Len(log') = Len(log) + 1 /\ stderr' = stderr)]_vars

\* A publish found nobody listening after a connection that had been sent
\* an earlier event was closed.
C17_Witness ==
    /\ last.sent = "err"
    /\ Open = {}
    /\ log # <<>>
    /\ stderr # {}
    /\ \A c \in Conns : conn[c].state = "none"

\* A step in which a list request is answered or fails.
ListStep == requests' = requests + 1 /\ task' = task /\ last'.op = "list"

\* A step in which connection c is opened.
Opens(c) == conn[c].state = "none" /\ conn'[c].state = "open"

\* C18: a list request, answered or failed, changes nothing but the count
\* of requests and the record of its answer; opening an SSE connection adds
\* one receiver to the channel and the new connection, with nothing sent to
\* it yet, and leaves the rows, the ring and its position, the other
\* connections, the handlers in flight and stderr as they were, and
\* publishes nothing.
C18_ReadOnlyOperations ==
    [][/\ ListStep =>
            /\ plugins' = plugins /\ id_seq' = id_seq
            /\ plugin_tx' = plugin_tx /\ conn' = conn
            /\ log' = log /\ sends' = sends /\ mutations' = mutations
            /\ stderr' = stderr
            /\ created' = created /\ removed' = removed
       /\ \A c \in Conns :
            Opens(c) =>
                /\ plugins' = plugins /\ id_seq' = id_seq
                /\ log' = log /\ sends' = sends /\ mutations' = mutations
                /\ stderr' = stderr
                /\ task' = task /\ last' = last /\ requests' = requests
                /\ created' = created /\ removed' = removed
                /\ plugin_tx' = [plugin_tx EXCEPT !.rx_cnt = @ + 1]
                /\ \A d \in Conns \ {c} : conn'[d] = conn[d]
                /\ conn'[c].frames = <<>> /\ conn'[c].got = <<>>
                /\ conn'[c].next = plugin_tx.pos]_vars

\* A list was answered with the stored rows while a connection that was
\* opened after an earlier one still has an event to read.
C18_Witness ==
    /\ last.op = "list" /\ last.stmt = "ok"
    /\ last.resp.body.plugins = plugins
    /\ plugins # <<>>
    /\ Open = Conns
    /\ \E c \in Conns : Unread(c) > 0 /\ conn[c].since > 0

====
